---- MODULE Spec2Model ----
(***************************************************************************)
(* Model of main.py: the flag-based command line (main), the analysis      *)
(* engine (get_author_modifications) with its temporary clone, branch      *)
(* resolution, commit filter and change aggregation, and the helpers       *)
(* validate_git_url, clone_repository and parse_date.                      *)
(*                                                                         *)
(* Strings whose characters matter (file paths, filter entries, author     *)
(* names and patterns, the -f argument) are sequences of one-character     *)
(* strings; branch names, hosts and messages are atomic strings.           *)
(***************************************************************************)
EXTENDS Integers, Sequences, FiniteSets

VARIABLES
    pc,                 \* position in main / get_author_modifications
    args,               \* argparse namespace of main
    repo_path,          \* parameter, rebound to temp_dir after a clone
    is_cloned,          \* parameter / local of get_author_modifications
    start_date,         \* parsed bounds (datetime or None)
    end_date,
    file_paths,         \* parsed filter list (None or a sequence of entries)
    temp_dir,           \* local of get_author_modifications (NoUrl is None)
    disk,               \* temporary directories that exist on disk
    clone_url,          \* URL handed to git.Repo.clone_from (NoUrl before)
    available_branches, \* [b.name for b in repo.branches]
    branch,             \* parameter, rebound by the fallback
    commit,             \* loop variable of the traversal
    processed,          \* commits the iterator has yielded so far
    commits_by_author,
    total_additions,
    total_deletions,
    file_stats,
    stats,              \* value returned by get_author_modifications
    exc,                \* exception in flight ("" when none)
    printed,            \* errors, warnings and notices printed so far
    exit_code           \* value main hands to sys.exit (-1 while running)

vars == <<pc, args, repo_path, is_cloned, start_date, end_date, file_paths,
          temp_dir, disk, clone_url, available_branches, branch, commit,
          processed, commits_by_author, total_additions, total_deletions,
          file_stats, stats, exc, printed, exit_code>>

----------------------------------------------------------------------------
(* Bounds of the model *)

\* longest history the iterator yields
MaxCommits == 2
\* last calendar day a commit or a bound may fall on (days are 0..MaxDay)
MaxDay == 1
\* clock ticks per calendar day (tick 0 of a day is midnight)
TicksPerDay == 2

----------------------------------------------------------------------------
(* Strings *)

RECURSIVE IndexOf(_, _, _)
\* first position >= i of character ch in s, 0 when absent
IndexOf(s, ch, i) ==
    IF i > Len(s) THEN 0
    ELSE IF s[i] = ch THEN i
    ELSE IndexOf(s, ch, i + 1)

\* Python's  sub in s
Contains(s, sub) ==
    \E i \in 0..(Len(s) - Len(sub)) : SubSeq(s, i + 1, i + Len(sub)) = sub

\* Python's  s.replace(ch, '')  for a single character ch
RemoveChar(s, ch) == SelectSeq(s, LAMBDA x : x # ch)

RECURSIVE Strip(_)
\* Python's  s.strip()  (blanks only)
Strip(s) ==
    IF s = <<>> THEN s
    ELSE IF Head(s) = " " THEN Strip(Tail(s))
    ELSE IF s[Len(s)] = " " THEN Strip(SubSeq(s, 1, Len(s) - 1))
    ELSE s

RECURSIVE Split(_, _)
\* Python's  s.split(sep)
Split(s, sep) ==
    LET i == IndexOf(s, sep, 1)
    IN  IF i = 0 THEN <<s>>
        ELSE <<SubSeq(s, 1, i - 1)>> \o Split(SubSeq(s, i + 1, Len(s)), sep)

LowerChar(ch) ==
    CASE ch = "A" -> "a"
      [] ch = "B" -> "b"
      [] OTHER -> ch

\* str.lower(), what re.IGNORECASE amounts to for the letters used here
Lower(s) == [i \in DOMAIN s |-> LowerChar(s[i])]

Range(s) == {s[i] : i \in DOMAIN s}

----------------------------------------------------------------------------
(* Values *)

None == <<>>

\* a datetime is a calendar day and a time of day, in the local time zone;
\* NoneDt stands for None
NoneDt == [day |-> -1, tod |-> 0]

DtLess(a, b) == a.day < b.day \/ (a.day = b.day /\ a.tod < b.tod)

\* datetime.fromtimestamp
fromtimestamp(t) == [day |-> t \div TicksPerDay, tod |-> t % TicksPerDay]

\* datetime.strftime('%Y-%m-%d')
strftime(dt) == dt.day

\* a date string: absent (None or ''), a well-formed YYYY-MM-DD, or malformed
NoDateStr == [kind |-> "none", day |-> 0]
BadDateStr == [kind |-> "bad", day |-> 0]
DateStr(d) == [kind |-> "date", day |-> d]

parse_date(date_str) ==
    IF date_str.kind = "none" THEN NoneDt
    ELSE IF date_str.kind = "date" THEN [day |-> date_str.day, tod |-> 0]
    ELSE NoneDt

\* URLs and paths: scheme, userinfo, host, path; ssh marks the scp-like form
\* user@host:path.git; a local path has an empty scheme and host
Url(scheme, host, path) ==
    [scheme |-> scheme, userinfo |-> "", host |-> host, path |-> path, ssh |-> FALSE]

NoUrl == Url("", "", "")

GitHubUrl == Url("https", "github.com", "/u/r.git")
GitLabUrl == Url("https", "gitlab.com", "/u/r.git")
OtherUrl == Url("https", "example.org", "/u/r.git")
SshUrl == [scheme |-> "", userinfo |-> "git", host |-> "github.com", path |-> "u/r.git", ssh |-> TRUE]
RepoDir == Url("", "", "/work/repo")
PlainDir == Url("", "", "/work/plain")
MissingDir == Url("", "", "/work/missing")
TempDir == Url("", "", "/tmp/git_analysis_x")

\* the hosts of the model whose name contains one of git_domains
git_domains == {"github.com", "gitlab.com", "bitbucket.org", "dev.azure.com"}

validate_git_url(url) ==
    \/ url.scheme \in {"http", "https"} /\ url.host \in git_domains
    \/ url.scheme = "git"
    \/ url.ssh

\* urllib.parse.urlparse(url).netloc: empty for the scp-like form
NetlocOf(url) == IF url.ssh THEN "" ELSE url.host

\* the URL clone_repository computes from the credentials it is given
\* ("" is None/empty, which Python treats as false)
AuthUrl(url, auth_token, username, password) ==
    IF auth_token # "" /\ url.host = "github.com"
    THEN IF url.scheme = "https" /\ ~url.ssh
         THEN [url EXCEPT !.userinfo = auth_token]
         ELSE url
    ELSE IF username # "" /\ password # ""
    THEN IF NetlocOf(url) # ""
         THEN [url EXCEPT !.userinfo = username \o ":" \o password]
         ELSE [url EXCEPT !.path = "garbled"]
    ELSE url

----------------------------------------------------------------------------
(* The repository as the version-control engine presents it *)

\* what git.Repo(path) finds at a path: "repo", "notrepo"
\* (InvalidGitRepositoryError) or "nopath" (NoSuchPathError)
PathKind(path) ==
    IF path = TempDir \/ path = RepoDir THEN "repo"
    ELSE IF path = PlainDir THEN "notrepo"
    ELSE "nopath"

\* commit.stats.total: GitPython sums the per-file numstat lines
RECURSIVE SumOver(_, _, _)
SumOver(files, todo, field) ==
    IF todo = {} THEN 0
    ELSE LET f == CHOOSE x \in todo : TRUE
         IN  files[f][field] + SumOver(files, todo \ {f}, field)

StatsTotal(c) ==
    [insertions |-> SumOver(c.files, DOMAIN c.files, "insertions"),
     deletions |-> SumOver(c.files, DOMAIN c.files, "deletions")]

\* value of the loop variable before the first commit
NoCommit == [author |-> <<>>, committed_date |-> 0, files |-> <<>>]

----------------------------------------------------------------------------
(* Author pattern *)

\* re.compile(author_name, re.IGNORECASE) raises re.error on an
\* unterminated character set
PatternCompiles(author_name) == ~Contains(author_name, <<"[">>)

\* author_pattern.search(name) for a literal pattern
PatternSearch(author_name, name) == Contains(Lower(name), Lower(author_name))

----------------------------------------------------------------------------
(* Branch resolution, lines 101-118 *)

FallbackChain == <<"main", "master", "develop", "dev">>

RECURSIVE FirstAltFromEnd(_, _)
\* variant of FirstAlt: the common names tried from the last to the first
FirstAltFromEnd(available, i) ==
    IF i > Len(FallbackChain) THEN ""
    ELSE IF FallbackChain[Len(FallbackChain) + 1 - i] \in Range(available)
    THEN FallbackChain[Len(FallbackChain) + 1 - i]
    ELSE FirstAltFromEnd(available, i + 1)

RECURSIVE FirstAlt(_, _)
\* the for loop over the common names: the first that is available, "" when
\* the loop runs to its else
FirstAlt(available, i) ==
    IF i > Len(FallbackChain) THEN ""
    ELSE IF FallbackChain[i] \in Range(available) THEN FallbackChain[i]
    ELSE FirstAlt(available, i + 1)

\* the branch analysed and the message printed; ok is FALSE for the
\* "No branches found" return
BranchResolution(requested, available) ==
    IF requested \in Range(available)
    THEN [ok |-> TRUE, branch |-> requested, msg |-> <<>>]
    ELSE LET alt == FirstAlt(available, 1)
         IN  IF alt # ""
             THEN \* branch is rebound before the message is formatted
                  [ok |-> TRUE, branch |-> alt,
                   msg |-> <<<<"branch_not_found", alt, alt>>>>]
             ELSE IF available # <<>>
             THEN [ok |-> TRUE, branch |-> available[1],
                   msg |-> <<<<"branch_not_found", available[1], available[1]>>>>]
             ELSE [ok |-> FALSE, branch |-> requested, msg |-> <<>>]

----------------------------------------------------------------------------
(* Commit filter and change aggregation, lines 130-181 *)

\* lines 135-139
DateInRange(commit_date, start, end) ==
    /\ ~(start # NoneDt /\ DtLess(commit_date, start))
    /\ ~(end # NoneDt /\ DtLess(end, commit_date))

\* variant of CommitMatches: the date window is not consulted
CommitMatchesAuthorOnly(c, author_name, start, end) ==
    PatternSearch(author_name, c.author)

\* line 142
CommitMatches(c, author_name, start, end) ==
    /\ PatternSearch(author_name, c.author)
    /\ DateInRange(fromtimestamp(c.committed_date), start, end)

\* variant of FileMatches: a wildcard entry matched as a suffix pattern
FileMatchesSuffix(file_path, changed_file) ==
    LET is_wildcard == Contains(file_path, <<"*">>)
        rest == RemoveChar(file_path, "*")
    IN  \/ /\ is_wildcard
           /\ Len(rest) <= Len(changed_file)
           /\ SubSeq(changed_file, Len(changed_file) - Len(rest) + 1,
                     Len(changed_file)) = rest
        \/ ~is_wildcard /\ file_path = changed_file

\* lines 150-155
FileMatches(file_path, changed_file) ==
    LET is_wildcard == Contains(file_path, <<"*">>)
    IN  \/ is_wildcard /\ Contains(changed_file, RemoveChar(file_path, "*"))
        \/ ~is_wildcard /\ file_path = changed_file

\* variant of TrackFile: the entry is assigned, not added to
TrackFileOverwrite(fs, changed_file, file_change) ==
    [f \in DOMAIN fs \cup {changed_file} |->
        IF f # changed_file THEN fs[f]
        ELSE [insertions |-> file_change.insertions,
              deletions |-> file_change.deletions]]

\* lines 160-166 and 175-181: insert-or-update of one FileStats entry
TrackFile(fs, changed_file, file_change) ==
    [f \in DOMAIN fs \cup {changed_file} |->
        IF f # changed_file THEN fs[f]
        ELSE IF f \in DOMAIN fs
        THEN [insertions |-> fs[f].insertions + file_change.insertions,
              deletions |-> fs[f].deletions + file_change.deletions]
        ELSE [insertions |-> file_change.insertions,
              deletions |-> file_change.deletions]]

\* lines 156-166: one matching file under one filter entry
AddMatch(acc, changed_file, file_change) ==
    [add |-> acc.add + file_change.insertions,
     del |-> acc.del + file_change.deletions,
     fs |-> TrackFile(acc.fs, changed_file, file_change)]

RECURSIVE EntryLoop(_, _, _, _)
\* lines 152-166: the loop over commit.stats.files.items() for one entry
EntryLoop(acc, file_path, files, todo) ==
    IF todo = {} THEN acc
    ELSE LET f == CHOOSE x \in todo : TRUE
             next == IF FileMatches(file_path, f)
                     THEN AddMatch(acc, f, files[f])
                     ELSE acc
         IN  EntryLoop(next, file_path, files, todo \ {f})

RECURSIVE FilterLoop(_, _, _, _)
\* lines 148-166: the loop over file_paths
FilterLoop(acc, paths, i, files) ==
    IF i > Len(paths) THEN acc
    ELSE FilterLoop(EntryLoop(acc, paths[i], files, DOMAIN files), paths, i + 1, files)

RECURSIVE TrackAll(_, _, _)
\* lines 174-181
TrackAll(fs, files, todo) ==
    IF todo = {} THEN fs
    ELSE LET f == CHOOSE x \in todo : TRUE
         IN  TrackAll(TrackFile(fs, f, files[f]), files, todo \ {f})

\* lines 168-181
NoFilterUpdate(acc, c) ==
    [add |-> acc.add + StatsTotal(c).insertions,
     del |-> acc.del + StatsTotal(c).deletions,
     fs |-> TrackAll(acc.fs, c.files, DOMAIN c.files)]

\* lines 146-181: the changes one matched commit makes to the accumulators
Aggregate(acc, c, paths) ==
    IF paths # None THEN FilterLoop(acc, paths, 1, c.files)
    ELSE NoFilterUpdate(acc, c)

----------------------------------------------------------------------------
(* Results *)

NoStats ==
    [kind |-> "none", error |-> "", author |-> <<>>, total_commits |-> 0,
     lines_added |-> 0, lines_deleted |-> 0, total_lines_modified |-> 0,
     file_stats |-> <<>>, first_commit_date |-> -1, last_commit_date |-> -1,
     repository |-> NoUrl]

ErrorStats(msg) == [NoStats EXCEPT !.kind = "error", !.error = msg]

\* lines 183-195
ResultStats(author_name, matched, additions, deletions, fs, repository) ==
    [kind |-> "result", error |-> "", author |-> author_name,
     total_commits |-> Len(matched),
     lines_added |-> additions,
     lines_deleted |-> deletions,
     total_lines_modified |-> additions + deletions,
     file_stats |-> fs,
     first_commit_date |->
        IF matched # <<>>
        THEN strftime(fromtimestamp(matched[Len(matched)].committed_date))
        ELSE -1,
     last_commit_date |->
        IF matched # <<>>
        THEN strftime(fromtimestamp(matched[1].committed_date))
        ELSE -1,
     repository |-> repository]

----------------------------------------------------------------------------
(* Inputs *)

\* longest branch listing of a repository
MaxBranches == 2

BranchNames == {"main", "master", "develop", "dev", "feature-x", "alpha"}

\* branch listings: distinct names in any order
BranchLists ==
    UNION {{bl \in [1..n -> BranchNames] :
                \A i, j \in 1..n : i # j => bl[i] # bl[j]} : n \in 0..MaxBranches}

Alice == <<"A", "l">>
Bob == <<"B", "o">>
AuthorNames == {Alice, Bob}

\* a pattern that compiles and one that does not
GoodPattern == <<"a", "l">>
BadPattern == <<"[">>

Paths == {<<"a">>, <<"a", "b">>}

\* numstat lines of one file: insertions only, or both kinds
Changes == {[insertions |-> 1, deletions |-> 0], [insertions |-> 2, deletions |-> 1]}

\* per-file change maps of a commit: any set of paths, any counts
FileMaps == UNION {[S -> Changes] : S \in SUBSET Paths}

Timestamps == 0..(TicksPerDay * (MaxDay + 1) - 1)

DateStrs == {NoDateStr} \cup {DateStr(d) : d \in 0..MaxDay}

OneFile == [f \in {<<"a">>} |-> [insertions |-> 2, deletions |-> 1]]

\* histories of the command-line scenarios
CLICommits ==
    {[author |-> a, committed_date |-> 0, files |-> OneFile] : a \in AuthorNames}

\* histories of the date scenarios: any author, any timestamp
DateCommits ==
    {[author |-> a, committed_date |-> t, files |-> OneFile] :
        a \in AuthorNames, t \in Timestamps}

\* histories of the file scenarios: commits of the analysed author at
\* midnight of day 0 or day 1 with any change map, and commits of another
\* author
FileCommits ==
    {[author |-> Alice, committed_date |-> t, files |-> fm] :
        t \in {0, TicksPerDay}, fm \in FileMaps}
    \cup
    {[author |-> Bob, committed_date |-> 0, files |-> fm] :
        fm \in {OneFile, [f \in Paths |-> [insertions |-> 1, deletions |-> 0]]}}

\* filter entries: exact, wildcard, wildcard in the middle, bare wildcard
FilterEntries == {<<"a">>, <<"*", "a">>, <<"a", "*", "b">>, <<"*">>}

\* values of -f: absent, one entry, two entries joined by a comma
FilesArgs ==
    {None} \cup FilterEntries
           \cup {e1 \o <<",">> \o e2 : e1, e2 \in FilterEntries}

NoCreds == [token |-> "", username |-> "", password |-> ""]
Credentials ==
    {NoCreds,
     [token |-> "tok", username |-> "", password |-> ""],
     [token |-> "", username |-> "user", password |-> "pw"]}

ArgsOf(repo, author, br, sd, ed, files, cr) ==
    [repo |-> repo, author |-> author, branch |-> br, start_date |-> sd,
     end_date |-> ed, files |-> files, token |-> cr.token,
     username |-> cr.username, password |-> cr.password]

\* command lines of the command-line scenarios
CLIArgs ==
    {ArgsOf(r, a, b, NoDateStr, NoDateStr, None, cr) :
        r \in {GitHubUrl, GitLabUrl, SshUrl, OtherUrl, RepoDir, PlainDir, MissingDir},
        a \in {<<>>, GoodPattern, BadPattern},
        b \in {"main", "feature-x"},
        cr \in Credentials}
    \cup
    {ArgsOf(RepoDir, GoodPattern, "main", sd, DateStr(0), f, NoCreds) :
        sd \in {NoDateStr, BadDateStr},
        f \in {None, <<"*", "a", ",", " ", "b">>}}

\* command lines of the date scenarios
DateArgs ==
    {ArgsOf(RepoDir, GoodPattern, "main", sd, ed, None, NoCreds) :
        sd \in DateStrs, ed \in DateStrs}

\* command lines of the file scenarios
FileArgs ==
    {ArgsOf(RepoDir, GoodPattern, "main", NoDateStr, NoDateStr, f, NoCreds) :
        f \in FilesArgs}
    \cup
    {ArgsOf(RepoDir, GoodPattern, "main", DateStr(1), NoDateStr, f, NoCreds) :
        f \in {None, <<"a">>}}

----------------------------------------------------------------------------
(* State machine *)

InitOver(A) ==
    /\ pc = "main"
    /\ args \in A
    /\ repo_path = NoUrl
    /\ is_cloned = FALSE
    /\ start_date = NoneDt
    /\ end_date = NoneDt
    /\ file_paths = None
    /\ temp_dir = NoUrl
    /\ disk = {}
    /\ clone_url = NoUrl
    /\ available_branches = <<>>
    /\ branch = ""
    /\ commit = NoCommit
    /\ processed = 0
    /\ commits_by_author = <<>>
    /\ total_additions = 0
    /\ total_deletions = 0
    /\ file_stats = <<>>
    /\ stats = NoStats
    /\ exc = ""
    /\ printed = <<>>
    /\ exit_code = -1

Say(kind, a, b) == printed' = Append(printed, <<kind, a, b>>)

\* what parse_date prints for its argument
DateComplaint(date_str) ==
    IF date_str.kind = "bad" THEN <<<<"invalid_date", "", "">>>> ELSE <<>>

\* main, lines 375-403: the flag-based path up to the call of
\* get_author_modifications
Main ==
    /\ pc = "main"
    /\ IF args.author = <<>>
       THEN /\ Say("author_required", "", "")
            /\ exit_code' = 0
            /\ pc' = "exit"
            /\ UNCHANGED <<repo_path, is_cloned, start_date, end_date,
                           file_paths, branch>>
       ELSE /\ repo_path' = args.repo
            /\ file_paths' =
                 IF args.files # None
                 THEN LET parts == Split(args.files, ",")
                      IN  [i \in DOMAIN parts |-> Strip(parts[i])]
                 ELSE None
            /\ start_date' = parse_date(args.start_date)
            /\ end_date' = parse_date(args.end_date)
            /\ printed' = printed \o DateComplaint(args.start_date)
                                  \o DateComplaint(args.end_date)
            /\ is_cloned' = validate_git_url(args.repo)
            /\ branch' = args.branch
            /\ pc' = "locate"
            /\ UNCHANGED exit_code
    /\ UNCHANGED <<args, temp_dir, disk, clone_url, available_branches, commit,
                   processed, commits_by_author, total_additions,
                   total_deletions, file_stats, stats, exc>>

CloneOutcomes == {"OtherError", "GitCommandError", "ok"}

\* get_author_modifications lines 84-88 with clone_repository lines 36-59;
\* the clone ends well, in GitCommandError, or in another exception, and
\* rmtree(ignore_errors=True) removes the directory or leaves it
Locate ==
    /\ pc = "locate"
    /\ IF validate_git_url(repo_path)
       THEN \E outcome \in CloneOutcomes, removed \in BOOLEAN :
              /\ clone_url' = AuthUrl(repo_path, "", "", "")
              /\ CASE outcome = "ok" ->
                        /\ disk' = disk \cup {TempDir}
                        /\ temp_dir' = TempDir
                        /\ repo_path' = TempDir
                        /\ is_cloned' = TRUE
                        /\ pc' = "open"
                        /\ UNCHANGED exc
                   [] outcome = "GitCommandError" ->
                        /\ disk' = IF removed THEN disk ELSE disk \cup {TempDir}
                        /\ exc' = "Failed to clone repository"
                        /\ pc' = "finally"
                        /\ UNCHANGED <<temp_dir, repo_path, is_cloned>>
                   [] OTHER ->
                        /\ disk' = disk \cup {TempDir}
                        /\ exc' = "GitCommandNotFound"
                        /\ pc' = "finally"
                        /\ UNCHANGED <<temp_dir, repo_path, is_cloned>>
       ELSE /\ pc' = "open"
            /\ UNCHANGED <<clone_url, disk, temp_dir, repo_path, is_cloned, exc>>
    /\ UNCHANGED <<args, start_date, end_date, file_paths, available_branches,
                   branch, commit, processed, commits_by_author,
                   total_additions, total_deletions, file_stats, stats,
                   printed, exit_code>>

\* lines 90-96
OpenRepo ==
    /\ pc = "open"
    /\ CASE PathKind(repo_path) = "repo" ->
              /\ pc' = "compile"
              /\ UNCHANGED stats
         [] PathKind(repo_path) = "notrepo" ->
              /\ stats' = ErrorStats("Invalid Git repository")
              /\ pc' = "finally"
         [] OTHER ->
              /\ stats' = ErrorStats("Error opening repository")
              /\ pc' = "finally"
    /\ UNCHANGED <<args, repo_path, is_cloned, start_date, end_date,
                   file_paths, temp_dir, disk, clone_url, available_branches,
                   branch, commit, processed, commits_by_author,
                   total_additions, total_deletions, file_stats, exc, printed,
                   exit_code>>

\* line 99
CompilePattern ==
    /\ pc = "compile"
    /\ IF PatternCompiles(args.author)
       THEN pc' = "resolve" /\ UNCHANGED exc
       ELSE pc' = "finally" /\ exc' = "re.error"
    /\ UNCHANGED <<args, repo_path, is_cloned, start_date, end_date,
                   file_paths, temp_dir, disk, clone_url, available_branches,
                   branch, commit, processed, commits_by_author,
                   total_additions, total_deletions, file_stats, stats,
                   printed, exit_code>>

\* lines 101-124, for a repository whose branch listing is bl
ResolveBranch(bl) ==
    /\ pc = "resolve"
    /\ available_branches' = bl
    /\ LET r == BranchResolution(branch, bl)
       IN  /\ branch' = r.branch
           /\ printed' = printed \o r.msg
           /\ IF r.ok
              THEN pc' = "traverse" /\ UNCHANGED stats
              ELSE /\ pc' = "finally"
                   /\ stats' = ErrorStats("No branches found in repository")
    /\ UNCHANGED <<args, repo_path, is_cloned, start_date, end_date,
                   file_paths, temp_dir, disk, clone_url, commit, processed,
                   commits_by_author, total_additions, total_deletions,
                   file_stats, exc, exit_code>>

\* lines 130-181: one pass of the loop body, for the commit c the iterator
\* yields next
ProcessCommit(c) ==
    /\ pc = "traverse"
    /\ processed < MaxCommits
    /\ commit' = c
    /\ processed' = processed + 1
    /\ IF CommitMatches(c, args.author, start_date, end_date)
       THEN LET acc == Aggregate([add |-> total_additions,
                                  del |-> total_deletions,
                                  fs |-> file_stats], c, file_paths)
            IN  /\ commits_by_author' = Append(commits_by_author, c)
                /\ total_additions' = acc.add
                /\ total_deletions' = acc.del
                /\ file_stats' = acc.fs
       ELSE UNCHANGED <<commits_by_author, total_additions, total_deletions,
                        file_stats>>
    /\ UNCHANGED <<pc, args, repo_path, is_cloned, start_date, end_date,
                   file_paths, temp_dir, disk, clone_url, available_branches,
                   branch, stats, exc, printed, exit_code>>

\* an exception out of the traversal (iter_commits or commit.stats failing)
TraverseError ==
    /\ pc = "traverse"
    /\ exc' = "GitCommandError"
    /\ pc' = "finally"
    /\ UNCHANGED <<args, repo_path, is_cloned, start_date, end_date,
                   file_paths, temp_dir, disk, clone_url, available_branches,
                   branch, commit, processed, commits_by_author,
                   total_additions, total_deletions, file_stats, stats,
                   printed, exit_code>>

\* lines 183-197: the iterator is exhausted
Assemble ==
    /\ pc = "traverse"
    /\ stats' = ResultStats(args.author, commits_by_author, total_additions,
                            total_deletions, file_stats,
                            IF ~is_cloned THEN repo_path ELSE clone_url)
    /\ pc' = "finally"
    /\ UNCHANGED <<args, repo_path, is_cloned, start_date, end_date,
                   file_paths, temp_dir, disk, clone_url, available_branches,
                   branch, commit, processed, commits_by_author,
                   total_additions, total_deletions, file_stats, exc, printed,
                   exit_code>>

\* lines 199-206: shutil.rmtree removes the directory or raises
Finally ==
    /\ pc = "finally"
    /\ IF temp_dir # NoUrl /\ is_cloned
       THEN \E removed \in BOOLEAN :
              IF removed
              THEN disk' = disk \ {temp_dir} /\ Say("cleaned_up", "", "")
              ELSE disk' = disk /\ Say("cleanup_warning", "", "")
       ELSE UNCHANGED <<disk, printed>>
    /\ pc' = "returned"
    /\ UNCHANGED <<args, repo_path, is_cloned, start_date, end_date,
                   file_paths, temp_dir, clone_url, available_branches, branch,
                   commit, processed, commits_by_author, total_additions,
                   total_deletions, file_stats, stats, exc, exit_code>>

\* main lines 405-411 with display_results lines 319-323
MainReturn ==
    /\ pc = "returned"
    /\ IF exc # ""
       THEN Say("error", exc, "") /\ exit_code' = 1
       ELSE /\ IF stats.kind = "error"
               THEN Say("error", stats.error, "")
               ELSE Say("results", "", "")
            /\ exit_code' = 0
    /\ pc' = "exit"
    /\ UNCHANGED <<args, repo_path, is_cloned, start_date, end_date,
                   file_paths, temp_dir, disk, clone_url, available_branches,
                   branch, commit, processed, commits_by_author,
                   total_additions, total_deletions, file_stats, stats, exc>>

\* the steps of an analysis whose traversal does not fail, over the branch
\* listings BL and the commits U
NextOver(BL, U) ==
    \/ Main
    \/ Locate
    \/ OpenRepo
    \/ CompilePattern
    \/ \E bl \in BL : ResolveBranch(bl)
    \/ \E c \in U : ProcessCommit(c)
    \/ Assemble
    \/ Finally
    \/ MainReturn

\* the command line over any source, credentials and branch listing
Init == InitOver(CLIArgs)
Next == NextOver(BranchLists, CLICommits) \/ TraverseError
Spec == Init /\ [][Next]_vars

\* a local repository with branch main, any date bounds and timestamps
InitDates == InitOver(DateArgs)
NextDates == NextOver({<<"main">>}, DateCommits)
SpecDates == InitDates /\ [][NextDates]_vars

\* a local repository with branch main, any file filter and change maps
InitFiles == InitOver(FileArgs)
NextFiles == NextOver({<<"main">>}, FileCommits)
SpecFiles == InitFiles /\ [][NextFiles]_vars

----------------------------------------------------------------------------
(* Properties *)

Returned == pc \in {"returned", "exit"}

\* C1: after the analysis of a remote source, on every exit path, the
\* temporary directory made by clone_repository no longer exists when control
\* is back in the caller.
C1_TempDirRemoved ==
    (Returned /\ validate_git_url(args.repo)) => TempDir \notin disk

HasPrinted(kind) == \E i \in DOMAIN printed : printed[i][1] = kind

\* C2: when main runs an analysis, it returns 0 exactly when the analysis
\* succeeded, and every failed analysis prints an error.
C2_FailureExitsNonZero ==
    (pc = "exit" /\ args.author # <<>>) =>
        LET succeeded == exc = "" /\ stats.kind = "result"
        IN  /\ (exit_code = 0) <=> succeeded
            /\ ~succeeded => HasPrinted("error")

\* the branch resolver has run
BranchResolved ==
    \/ pc = "traverse"
    \/ stats.kind = "result"
    \/ stats.error = "No branches found in repository"
    \/ exc = "GitCommandError"

\* the common names, in the order they are tried
CommonNames == <<"main", "master", "develop", "dev">>

\* C3: a requested branch that exists is used unchanged; otherwise the first
\* of main, master, develop, dev that exists is analysed; otherwise the first
\* listed branch; a repository without branches gives the "no branches" error
\* and no commit is traversed.
C3_BranchResolution ==
    BranchResolved =>
        LET av == available_branches
            hits == {i \in DOMAIN CommonNames : CommonNames[i] \in Range(av)}
        IN  IF args.branch \in Range(av) THEN branch = args.branch
            ELSE IF hits # {}
            THEN \E i \in hits : /\ \A j \in hits : i <= j
                                 /\ branch = CommonNames[i]
            ELSE IF av # <<>> THEN branch = av[1]
            ELSE /\ stats = ErrorStats("No branches found in repository")
                 /\ pc # "traverse"
                 /\ processed = 0
                 /\ commits_by_author = <<>>

\* C3 witness: neither the requested branch nor a common name exists and the
\* first of two listed branches is being analysed
C3_Witness ==
    /\ pc = "traverse"
    /\ Len(available_branches) = 2
    /\ args.branch \notin Range(available_branches)
    /\ Range(available_branches) \cap Range(CommonNames) = {}
    /\ branch = available_branches[1]
    /\ processed > 0

\* C4: whenever a fallback branch is substituted, a message names the
\* requested branch as the one not found and the fallback as the one used.
C4_SubstitutionReported ==
    (BranchResolved /\ available_branches # <<>>
        /\ args.branch \notin Range(available_branches)) =>
        \E i \in DOMAIN printed :
            printed[i] = <<"branch_not_found", args.branch, branch>>

\* the source with the supplied credentials in its authority component
WithCredentials(url, a) ==
    IF a.token # "" THEN [url EXCEPT !.userinfo = a.token]
    ELSE IF a.username # "" /\ a.password # ""
    THEN [url EXCEPT !.userinfo = a.username \o ":" \o a.password]
    ELSE url

\* C5: the URL passed to the clone carries the supplied token or
\* username:password; without credentials it is the source URL.
C5_CloneUrlAuthenticated ==
    clone_url # NoUrl => clone_url = WithCredentials(args.repo, args)

\* calendar day of a commit
DayOf(c) == c.committed_date \div TicksPerDay

\* the commit's day lies within the supplied dates, an absent one unbounded
WithinDates(c) ==
    /\ args.start_date.kind = "date" => args.start_date.day <= DayOf(c)
    /\ args.end_date.kind = "date" => DayOf(c) <= args.end_date.day

\* C6: a commit whose author matches is matched iff its date lies within
\* [start_date, end_date], both bounds included.
C6_DatesInclusive ==
    (processed > 0 /\ PatternSearch(args.author, commit.author)) =>
        ((commit \in Range(commits_by_author)) <=> WithinDates(commit))

\* an entry without its '*' characters
RECURSIVE Unstarred(_)
Unstarred(e) ==
    IF e = <<>> THEN <<>>
    ELSE IF Head(e) = "*" THEN Unstarred(Tail(e))
    ELSE <<Head(e)>> \o Unstarred(Tail(e))

\* a path satisfies an entry: a wildcard entry when the path has the entry
\* without its '*' as a substring, an exact entry when the path equals it
SatisfiesEntry(e, path) ==
    IF \E i \in DOMAIN e : e[i] = "*"
    THEN \E a \in 0..Len(path) : \E b \in a..Len(path) :
            SubSeq(path, a + 1, b) = Unstarred(e)
    ELSE path = e

\* number of entries of the filter list a path satisfies
Satisfied(path) ==
    Cardinality({i \in DOMAIN file_paths : SatisfiesEntry(file_paths[i], path)})

RECURSIVE MatchedSum(_, _, _)
\* what the first n matched commits changed in a path
MatchedSum(path, field, n) ==
    IF n = 0 THEN 0
    ELSE MatchedSum(path, field, n - 1)
         + (IF path \in DOMAIN commits_by_author[n].files
            THEN commits_by_author[n].files[path][field]
            ELSE 0)

TouchedByMatched(path) ==
    \E j \in DOMAIN commits_by_author : path \in DOMAIN commits_by_author[j].files

RECURSIVE WeightedSum(_, _)
WeightedSum(todo, field) ==
    IF todo = {} THEN 0
    ELSE LET f == CHOOSE x \in todo : TRUE
         IN  Satisfied(f) * MatchedSum(f, field, Len(commits_by_author))
             + WeightedSum(todo \ {f}, field)

\* C7: with a file filter, a changed file of a matched commit adds its counts
\* to the global counters and to its FileStats entry once per entry it
\* satisfies, and not at all when it satisfies none.
C7_OncePerEntry ==
    file_paths # None =>
        /\ \A f \in Paths :
             IF Satisfied(f) > 0 /\ TouchedByMatched(f)
             THEN /\ f \in DOMAIN file_stats
                  /\ file_stats[f].insertions =
                        Satisfied(f) * MatchedSum(f, "insertions", Len(commits_by_author))
                  /\ file_stats[f].deletions =
                        Satisfied(f) * MatchedSum(f, "deletions", Len(commits_by_author))
             ELSE f \notin DOMAIN file_stats
        /\ total_additions = WeightedSum(Paths, "insertions")
        /\ total_deletions = WeightedSum(Paths, "deletions")

\* C7 witness: a file that satisfies both entries was changed by two matched
\* commits and another file satisfies one entry only
C7_Witness ==
    /\ file_paths # None
    /\ Len(commits_by_author) = 2
    /\ \E f \in DOMAIN file_stats :
          /\ Satisfied(f) = 2
          /\ f \in DOMAIN commits_by_author[1].files
          /\ f \in DOMAIN commits_by_author[2].files
          /\ file_stats[f].deletions > 0
    /\ \E g \in Paths : Satisfied(g) = 1 /\ TouchedByMatched(g)

\* first and last dates of a result against the matched commits
OldestDay == CHOOSE d \in {DayOf(commits_by_author[j]) : j \in DOMAIN commits_by_author} :
                \A j \in DOMAIN commits_by_author : d <= DayOf(commits_by_author[j])
NewestDay == CHOOSE d \in {DayOf(commits_by_author[j]) : j \in DOMAIN commits_by_author} :
                \A j \in DOMAIN commits_by_author : d >= DayOf(commits_by_author[j])

\* C8: in a result with matched commits first_commit_date is the date of the
\* oldest and last_commit_date the date of the newest, so first <= last;
\* without matched commits both are absent.
C8_FirstIsOldest ==
    stats.kind = "result" =>
        IF commits_by_author # <<>>
        THEN /\ stats.first_commit_date = OldestDay
             /\ stats.last_commit_date = NewestDay
             /\ stats.first_commit_date <= stats.last_commit_date
        ELSE stats.first_commit_date = -1 /\ stats.last_commit_date = -1

RECURSIVE FieldSum(_, _, _)
\* sum of one field over the entries of a FileStats mapping
FieldSum(fs, keys, field) ==
    IF keys = {} THEN 0
    ELSE LET k == CHOOSE x \in keys : TRUE
         IN  fs[k][field] + FieldSum(fs, keys \ {k}, field)

\* C9: without a file filter the FileStats insertions sum to lines_added and
\* the deletions to lines_deleted, after every commit and in the result.
C9_SumsAgree ==
    file_paths = None =>
        /\ FieldSum(file_stats, DOMAIN file_stats, "insertions") = total_additions
        /\ FieldSum(file_stats, DOMAIN file_stats, "deletions") = total_deletions
        /\ stats.kind = "result" =>
              /\ FieldSum(stats.file_stats, DOMAIN stats.file_stats, "insertions")
                    = stats.lines_added
              /\ FieldSum(stats.file_stats, DOMAIN stats.file_stats, "deletions")
                    = stats.lines_deleted

\* C9 witness: without a filter, two matched commits changed the same file
\* and one of them a second file
C9_Witness ==
    /\ file_paths = None
    /\ stats.kind = "result"
    /\ Len(commits_by_author) = 2
    /\ Cardinality(DOMAIN stats.file_stats) = 2
    /\ \E f \in Paths : /\ f \in DOMAIN commits_by_author[1].files
                        /\ f \in DOMAIN commits_by_author[2].files
    /\ stats.lines_deleted > 0

\* the author pattern is found in the author's name and the timestamp lies
\* within the parsed bounds
IsMatched(c) ==
    /\ PatternSearch(args.author, c.author)
    /\ start_date # NoneDt => start_date.day * TicksPerDay + start_date.tod <= c.committed_date
    /\ end_date # NoneDt => c.committed_date <= end_date.day * TicksPerDay + end_date.tod

KeysFromMatched ==
    /\ \A j \in DOMAIN commits_by_author : IsMatched(commits_by_author[j])
    /\ \A f \in DOMAIN file_stats :
          /\ TouchedByMatched(f)
          /\ file_paths # None =>
                \E i \in DOMAIN file_paths : SatisfiesEntry(file_paths[i], f)
    /\ commits_by_author = <<>> =>
          total_additions = 0 /\ total_deletions = 0 /\ DOMAIN file_stats = {}
    /\ (stats.kind = "result" /\ commits_by_author = <<>>) =>
          /\ stats.total_commits = 0
          /\ stats.lines_added = 0
          /\ stats.lines_deleted = 0
          /\ DOMAIN stats.file_stats = {}

\* C10: every key of FileStats is a path changed by a matched commit that,
\* under a filter, satisfies an entry; a commit that is not matched changes
\* neither the matched list, nor the counters, nor FileStats; without
\* matched commits the counts are zero and FileStats is empty.
C10_KeysFromMatched ==
    [][/\ KeysFromMatched'
       /\ (processed' = processed + 1 /\ ~IsMatched(commit')) =>
             UNCHANGED <<commits_by_author, total_additions,
                         total_deletions, file_stats>>]_vars

\* C10 witness: under a filter and a start date, of two commits processed one
\* was matched and left a key, and the result is assembled
C10_Witness ==
    /\ file_paths # None
    /\ start_date # NoneDt
    /\ processed = 2
    /\ Len(commits_by_author) = 1
    /\ DOMAIN file_stats # {}
    /\ DOMAIN file_stats # DOMAIN commits_by_author[1].files
    /\ ~IsMatched(commit)
    /\ DOMAIN commit.files # {}
    /\ stats.kind = "result"

====
